---- MODULE Spec2Model ----
(***************************************************************************)
(* rorth: a Forth-like stack language.                                     *)
(*   parser.rs        parse(tokens) -> Program | Error                     *)
(*   stack_machine.rs StackMachine::execute(program) -> Vec<i32> | Error   *)
(* Indices (token index i, instruction indices, jump payloads, idx) are    *)
(* 0-based as in the source; At(s, k) reads element k of a sequence.       *)
(***************************************************************************)
EXTENDS Integers, Sequences, FiniteSets, TLC

VARIABLES tokens, i, instructions, stack, functions, parse_result,
          vstack, call_stack, result, idx, exec_result, pc,
          reused, check_result

vars == <<tokens, i, instructions, stack, functions, parse_result,
          vstack, call_stack, result, idx, exec_result, pc,
          reused, check_result>>

parserVars == <<tokens, i, instructions, stack, functions, parse_result>>
machineVars == <<vstack, call_stack, result, idx, exec_result>>

\* What the caller of the machine holds: whether the machine has run a
\* program before, and the verdict of check_stack_safety on the program.
callerVars == <<reused, check_result>>

(* ---------------------------- bounds ---------------------------------- *)
\* MaxTokens: tokens of an input.  MaxPlain: plain (one-instruction) tokens
\* of a block program.  MaxStraight: plain tokens of a straight-line program.
\* MaxFuns: 'fun' declarations.  MaxOpen: blocks open at once.
\* MaxDepth, MaxCalls, MaxOutput: lengths of the value stack, the call stack
\* and the output that execute is followed to.  LineWidth: tokens on a line.
\* MaxPushes, MaxOps: pushes and operations of a straight-line program built
\* directly.  MaxControl: instructions of a program of jumps and calls.
\* MaxAgain: instructions of a program handed to a machine that has run.
\* MaxChecked: instructions of a program of the plain kinds in any order.
MaxTokens == 7
MaxPlain == 2
MaxStraight == 3
MaxFuns == 2
MaxOpen == 2
MaxDepth == 4
MaxCalls == 2
MaxOutput == 3
MaxPushes == 3
MaxOps == 2
MaxControl == 3
MaxAgain == 2
MaxChecked == 3
LineWidth == 3

NumValues == {0, 1}
Names == {"main", "f"}

(* ---------------------------- helpers --------------------------------- *)
At(s, k) == s[k + 1]

Last(s) == s[Len(s)]

Front(s) == SubSeq(s, 1, Len(s) - 1)

SetAt(s, k, v) == [s EXCEPT ![k + 1] = v]

(* ---------------------------- tokens ---------------------------------- *)
PlainTypes == {"Num", "Add", "Sub", "Mul", "Div", "Print", "Pop",
               "Dup", "Swap", "Rot", "Over", "Nip", "Ret"}

TokenTypes == PlainTypes \cup {"While", "End", "If", "Else", "Identifier", "Fun"}

\* The token at index k of the input: tokens are laid out LineWidth to a
\* line, so that (pos, line) identifies the token.
Token(type, n, name, k) ==
    [type |-> type, n |-> n, name |-> name,
     pos |-> 2 * (k % LineWidth) + 1, line |-> (k \div LineWidth) + 1]

KeywordWord(type) ==
    IF type = "Fun" THEN "fun" ELSE "ret"

NumWord(n) == ToString(n)

TokenWord(tok) ==
    CASE tok.type = "While" -> "while"
      [] tok.type = "End" -> "end"
      [] tok.type = "Num" -> NumWord(tok.n)
      [] tok.type = "Pop" -> "pop"
      [] tok.type = "Add" -> "+"
      [] tok.type = "Sub" -> "-"
      [] tok.type = "Mul" -> "*"
      [] tok.type = "Div" -> "/"
      [] tok.type = "Print" -> "print"
      [] tok.type = "Dup" -> "dup"
      [] tok.type = "Swap" -> "swap"
      [] tok.type = "Rot" -> "rot"
      [] tok.type = "Over" -> "over"
      [] tok.type = "Nip" -> "nip"
      [] tok.type = "If" -> "if"
      [] tok.type = "Else" -> "else"
      [] tok.type = "Identifier" -> tok.name
      [] OTHER -> KeywordWord(tok.type)

(* ---------------------------- instructions ---------------------------- *)
Instruction_Unplaced(type, arg, tok) ==
    [type |-> type, arg |-> arg, pos |-> tok.line, line |-> tok.pos]

Instruction(type, arg, tok) ==
    [type |-> type, arg |-> arg, pos |-> tok.pos, line |-> tok.line]

PlainInstruction(tok) ==
    Instruction(IF tok.type = "Num" THEN "Push" ELSE tok.type,
                IF tok.type = "Num" THEN tok.n ELSE 0, tok)

JmpTypes == {"While", "EndWhile", "If", "Else"}

\* format!("{:?}", instruction_type): the derived Debug form of a kind.
DebugWord(ins) ==
    IF ins.type \in JmpTypes \cup {"Push", "Call"}
    THEN ins.type \o "(" \o ToString(ins.arg) \o ")"
    ELSE ins.type

\* Instruction::set_jmp_pos: Ok(the instruction with the new payload) for
\* the kinds that carry a jump, Err(Parse) for every other kind.
set_jmp_pos(ins, jmp_pos) ==
    IF ins.type \in JmpTypes
    THEN [ins EXCEPT !.arg = jmp_pos]
    ELSE [kind |-> "Parse", word |-> DebugWord(ins), pos |-> ins.pos,
          line |-> ins.line, comment |-> "This instruction doesn't support jmp"]

\* The Err case of a Result that is an instruction when Ok.
IsErr(r) == "kind" \in DOMAIN r

(* ---------------------------- results --------------------------------- *)
NoResult == [kind |-> "None", word |-> "", pos |-> 0, line |-> 0, comment |-> ""]

OkResult == [kind |-> "Ok", word |-> "", pos |-> 0, line |-> 0, comment |-> ""]

PanicResult == [kind |-> "Panic", word |-> "", pos |-> 0, line |-> 0, comment |-> ""]

ParseError(word, pos, line, comment) ==
    [kind |-> "Parse", word |-> word, pos |-> pos, line |-> line, comment |-> comment]

\* The backquotes of the source's messages are written as apostrophes.
Unexpected(tok) == "Unexpected '" \o TokenWord(tok) \o "'"

NoMatchingEnd(tok) == "This '" \o TokenWord(tok) \o "' has no matching end"

(* ---------------------------- parse ----------------------------------- *)
Init ==
    /\ tokens = <<>>
    /\ i = 0
    /\ instructions = <<>>
    /\ stack = <<>>
    /\ functions = <<>>
    /\ parse_result = NoResult
    /\ vstack = <<>>
    /\ call_stack = <<>>
    /\ result = <<>>
    /\ idx = 0
    /\ exec_result = NoResult
    /\ reused = FALSE
    /\ check_result = NoResult
    /\ pc = "parse"

\* tokens.get(i) is Some(token): the input holds one more token.
HasToken == pc = "parse" /\ i = Len(tokens) /\ Len(tokens) < MaxTokens

PlainCount == Cardinality({k \in 1..Len(tokens) : tokens[k].type \in PlainTypes})

\* The inputs are of two families: programs of every shape over the core
\* kinds (numbers, print, ret, blocks, declarations, calls), and straight-line
\* programs 'fun main p1 .. pn' over all the plain kinds.
CoreTypes == {"Num", "Print", "Ret"}

OnlyCore == \A k \in 1..Len(tokens) : tokens[k].type \in PlainTypes => tokens[k].type \in CoreTypes

StraightLine ==
    /\ Len(tokens) >= 2
    /\ tokens[1].type = "Fun"
    /\ tokens[2].name = "main"
    /\ \A k \in 3..Len(tokens) : tokens[k].type \in PlainTypes

MayReadPlain(type) ==
    \/ type \in CoreTypes /\ OnlyCore /\ PlainCount < MaxPlain
    \/ StraightLine /\ PlainCount < MaxStraight

MayReadCore == HasToken /\ OnlyCore

FunCount == Cardinality({k \in 1..Len(tokens) : tokens[k].type = "Fun"})

Fail(err) ==
    /\ parse_result' = err
    /\ pc' = "parsed"

ParsePlain(type, n) ==
    /\ HasToken
    /\ MayReadPlain(type)
    /\ LET token == Token(type, n, "", i) IN
        /\ tokens' = Append(tokens, token)
        /\ instructions' = Append(instructions, PlainInstruction(token))
    /\ i' = i + 1
    /\ UNCHANGED <<stack, functions, parse_result, pc, machineVars, callerVars>>

ParseNum == \E n \in NumValues : ParsePlain("Num", n)

ParseAdd == ParsePlain("Add", 0)

ParseSub == ParsePlain("Sub", 0)

ParseMul == ParsePlain("Mul", 0)

ParseDiv == ParsePlain("Div", 0)

ParsePrint == ParsePlain("Print", 0)

ParsePop == ParsePlain("Pop", 0)

ParseDup == ParsePlain("Dup", 0)

ParseSwap == ParsePlain("Swap", 0)

ParseRot == ParsePlain("Rot", 0)

ParseOver == ParsePlain("Over", 0)

ParseNip == ParsePlain("Nip", 0)

ParseRet == ParsePlain("Ret", 0)

ParseOpener(type) ==
    /\ MayReadCore
    /\ Len(stack) < MaxOpen
    /\ LET token == Token(type, 0, "", i) IN
        /\ tokens' = Append(tokens, token)
        /\ stack' = Append(stack, Len(instructions))
        /\ instructions' = Append(instructions, Instruction(type, 0, token))
    /\ i' = i + 1
    /\ UNCHANGED <<functions, parse_result, pc, machineVars, callerVars>>

ParseWhile == ParseOpener("While")

ParseIf == ParseOpener("If")

UnexpectedToken_Zeroed(token) ==
    ParseError(TokenWord(token), 0, 0, Unexpected(token))

\* stack.pop().ok_or(..): the error of an 'end' or 'else' met with no open block.
UnexpectedToken(token) ==
    ParseError(TokenWord(token), token.pos, token.line, Unexpected(token))

MatchesIf_OrElse(opener) == opener.type \in {"If", "Else"}

\* The opener an 'else' accepts.
MatchesIf(opener) == opener.type = "If"

EntryPoint_TokenIndex == i

\* The entry index 'fun <name>' records.
EntryPoint == Len(instructions)

UnclosedIndex_Outermost == stack[1]

\* stack.pop().unwrap() at the end of the input.
UnclosedIndex == Last(stack)

BackEdge_TokenIndex(opener_idx) == i

\* The payload of the EndWhile that closes the While at opener_idx.
BackEdge(opener_idx) == opener_idx

ParseEnd ==
    /\ MayReadCore
    /\ LET token == Token("End", 0, "", i) IN
        /\ tokens' = Append(tokens, token)
        /\ IF stack = <<>>
           THEN /\ Fail(UnexpectedToken(token))
                /\ UNCHANGED <<i, instructions, stack>>
           ELSE LET opener_idx == Last(stack)
                    opener == At(instructions, opener_idx) IN
                IF opener.type \in {"While", "Else"}
                THEN IF IsErr(set_jmp_pos(opener, i))
                     THEN /\ stack' = Front(stack)
                          /\ Fail(set_jmp_pos(opener, i))
                          /\ UNCHANGED <<i, instructions>>
                     ELSE /\ stack' = Front(stack)
                          /\ instructions' =
                               SetAt(Append(instructions,
                                            IF opener.type = "While"
                                            THEN Instruction("EndWhile", BackEdge(opener_idx), token)
                                            ELSE Instruction("EndIf", 0, token)),
                                     opener_idx, set_jmp_pos(opener, i))
                          /\ i' = i + 1
                          /\ UNCHANGED <<parse_result, pc>>
                ELSE /\ stack' = Front(stack)
                     /\ Fail(PanicResult)
                     /\ UNCHANGED <<i, instructions>>
    /\ UNCHANGED <<functions, machineVars, callerVars>>

ParseElse ==
    /\ MayReadCore
    /\ LET token == Token("Else", 0, "", i) IN
        /\ tokens' = Append(tokens, token)
        /\ IF stack = <<>>
           THEN /\ Fail(UnexpectedToken(token))
                /\ UNCHANGED <<i, instructions, stack>>
           ELSE LET opener_idx == Last(stack)
                    opener == At(instructions, opener_idx) IN
                IF MatchesIf(opener)
                THEN IF IsErr(set_jmp_pos(opener, i))
                     THEN /\ stack' = Front(stack)
                          /\ Fail(set_jmp_pos(opener, i))
                          /\ UNCHANGED <<i, instructions>>
                     ELSE /\ stack' = Append(Front(stack), Len(instructions))
                          /\ instructions' =
                               Append(SetAt(instructions, opener_idx,
                                            set_jmp_pos(opener, i)),
                                      Instruction("Else", 0, token))
                          /\ i' = i + 1
                          /\ UNCHANGED <<parse_result, pc>>
                ELSE /\ stack' = Front(stack)
                     /\ Fail(ParseError(TokenWord(token), token.pos, token.line,
                                        "This 'else' has no matching if"))
                     /\ UNCHANGED <<i, instructions>>
    /\ UNCHANGED <<functions, machineVars, callerVars>>

NotDeclared_AsFun(token) ==
    ParseError("function", token.pos, token.line, "Function not found")

\* The error of an identifier that functions.get() does not find.
NotDeclared(token) ==
    ParseError(TokenWord(token), token.pos, token.line, "Function not found")

CallEntry_Current(ident) == Len(instructions)

\* functions.get(ident): the entry recorded for the name.
CallEntry(ident) == functions[ident]

ParseIdentifier_AnyEntry ==
    /\ MayReadCore
    /\ \E ident \in Names :
        LET token == Token("Identifier", 0, ident, i) IN
        /\ tokens' = Append(tokens, token)
        /\ IF ident \in DOMAIN functions
           THEN /\ \E f \in DOMAIN functions :
                     instructions' =
                       Append(instructions, Instruction("Call", functions[f], token))
                /\ i' = i + 1
                /\ UNCHANGED <<parse_result, pc>>
           ELSE /\ Fail(NotDeclared(token))
                /\ UNCHANGED <<i, instructions>>
    /\ UNCHANGED <<stack, functions, machineVars, callerVars>>

ParseIdentifier ==
    /\ MayReadCore
    /\ \E ident \in Names :
        LET token == Token("Identifier", 0, ident, i) IN
        /\ tokens' = Append(tokens, token)
        /\ IF ident \in DOMAIN functions
           THEN /\ instructions' =
                     Append(instructions, Instruction("Call", CallEntry(ident), token))
                /\ i' = i + 1
                /\ UNCHANGED <<parse_result, pc>>
           ELSE /\ Fail(NotDeclared(token))
                /\ UNCHANGED <<i, instructions>>
    /\ UNCHANGED <<stack, functions, machineVars, callerVars>>

Insert_KeepFirst(map, name, v) ==
    [k \in DOMAIN map \cup {name} |-> IF k \in DOMAIN map THEN map[k] ELSE v]

Insert(map, name, v) ==
    [k \in DOMAIN map \cup {name} |-> IF k = name THEN v ELSE map[k]]

\* The kinds of token that follow a 'fun' whose name is missing.
FollowTypes == {"Num", "Fun", "End"}

FunNameMissing_AtNext(token) ==
    ParseError("function", Token("Fun", 0, "", i + 1).pos,
               Token("Fun", 0, "", i + 1).line, "Function name is missing")

FunNameMissing(token) == ParseError("function", token.pos, token.line,
                                    "Function name is missing")

ParseFun_EntryAfter ==
    /\ MayReadCore
    /\ Len(tokens) + 1 < MaxTokens
    /\ FunCount < MaxFuns
    /\ \E name \in Names :
        /\ tokens' = tokens \o <<Token("Fun", 0, "", i),
                                 Token("Identifier", 0, name, i + 1)>>
        /\ functions' = Insert(functions, name, EntryPoint + 1)
    /\ i' = i + 2
    /\ UNCHANGED <<instructions, stack, parse_result, pc, machineVars, callerVars>>

\* 'fun' followed by an identifier.
ParseFun ==
    /\ MayReadCore
    /\ Len(tokens) + 1 < MaxTokens
    /\ FunCount < MaxFuns
    /\ \E name \in Names :
        /\ tokens' = tokens \o <<Token("Fun", 0, "", i),
                                 Token("Identifier", 0, name, i + 1)>>
        /\ functions' = Insert(functions, name, EntryPoint)
    /\ i' = i + 2
    /\ UNCHANGED <<instructions, stack, parse_result, pc, machineVars, callerVars>>

\* 'fun' followed by a token that is not an identifier, or by nothing.
ParseFunMissing ==
    /\ MayReadCore
    /\ LET token == Token("Fun", 0, "", i) IN
        /\ \/ tokens' = Append(tokens, token)
           \/ /\ Len(tokens) + 1 < MaxTokens
              /\ \E type \in FollowTypes :
                   tokens' = tokens \o <<token, Token(type, 0, "", i + 1)>>
        /\ Fail(FunNameMissing(token))
    /\ i' = i + 1
    /\ UNCHANGED <<instructions, stack, functions, machineVars, callerVars>>

\* tokens.get(i) is None: the loop ends and the resolution stack is checked.
ParseFinish ==
    /\ pc = "parse"
    /\ IF stack # <<>>
       THEN LET k == UnclosedIndex IN
            /\ stack' = Front(stack)
            /\ IF k < Len(tokens)
               THEN Fail(ParseError(TokenWord(At(tokens, k)), At(tokens, k).pos,
                                    At(tokens, k).line, NoMatchingEnd(At(tokens, k))))
               ELSE Fail(ParseError("", 0, 0, "impossible index"))
       ELSE /\ Fail(OkResult)
            /\ UNCHANGED stack
    /\ UNCHANGED <<tokens, i, instructions, functions, machineVars, callerVars>>

(* ---------------------------- parse as a function --------------------- *)
\* parse(tokens) as one function of its argument: the locals of the loop are
\* the fields of st, and each arm of the match gives the next st.
ParseState(k, ins, stk, funs, res) ==
    [i |-> k, instructions |-> ins, stack |-> stk, functions |-> funs, result |-> res]

Failed(st, err) == [st EXCEPT !.result = err]

EndArm(st, token) ==
    IF st.stack = <<>> THEN Failed(st, UnexpectedToken(token))
    ELSE LET opener_idx == Last(st.stack)
             opener == At(st.instructions, opener_idx) IN
         IF opener.type \in {"While", "Else"} /\ IsErr(set_jmp_pos(opener, st.i))
         THEN Failed(st, set_jmp_pos(opener, st.i))
         ELSE IF opener.type \in {"While", "Else"}
         THEN ParseState(st.i + 1,
                         SetAt(Append(st.instructions,
                                      IF opener.type = "While"
                                      THEN Instruction("EndWhile", opener_idx, token)
                                      ELSE Instruction("EndIf", 0, token)),
                               opener_idx, set_jmp_pos(opener, st.i)),
                         Front(st.stack), st.functions, st.result)
         ELSE Failed(st, PanicResult)

ElseArm(st, token) ==
    IF st.stack = <<>> THEN Failed(st, UnexpectedToken(token))
    ELSE LET opener_idx == Last(st.stack)
             opener == At(st.instructions, opener_idx) IN
         IF opener.type = "If" /\ IsErr(set_jmp_pos(opener, st.i))
         THEN Failed(st, set_jmp_pos(opener, st.i))
         ELSE IF opener.type = "If"
         THEN ParseState(st.i + 1,
                         Append(SetAt(st.instructions, opener_idx,
                                      set_jmp_pos(opener, st.i)),
                                Instruction("Else", 0, token)),
                         Append(Front(st.stack), Len(st.instructions)),
                         st.functions, st.result)
         ELSE Failed(st, ParseError(TokenWord(token), token.pos, token.line,
                                    "This 'else' has no matching if"))

IdentifierArm(st, token) ==
    IF token.name \in DOMAIN st.functions
    THEN ParseState(st.i + 1,
                    Append(st.instructions,
                           Instruction("Call", st.functions[token.name], token)),
                    st.stack, st.functions, st.result)
    ELSE Failed(st, NotDeclared(token))

FunArm(toks, st, token) ==
    IF st.i + 1 < Len(toks) /\ At(toks, st.i + 1).type = "Identifier"
    THEN ParseState(st.i + 2, st.instructions, st.stack,
                    Insert(st.functions, At(toks, st.i + 1).name,
                           Len(st.instructions)),
                    st.result)
    ELSE Failed(st, FunNameMissing(token))

Arm(toks, st, token) ==
    CASE token.type \in PlainTypes ->
           ParseState(st.i + 1, Append(st.instructions, PlainInstruction(token)),
                      st.stack, st.functions, st.result)
      [] token.type \in {"While", "If"} ->
           ParseState(st.i + 1,
                      Append(st.instructions, Instruction(token.type, 0, token)),
                      Append(st.stack, Len(st.instructions)),
                      st.functions, st.result)
      [] token.type = "End" -> EndArm(st, token)
      [] token.type = "Else" -> ElseArm(st, token)
      [] token.type = "Identifier" -> IdentifierArm(st, token)
      [] OTHER -> FunArm(toks, st, token)

\* The check of the resolution stack after the loop.
AfterLoop(toks, st) ==
    IF st.stack # <<>>
    THEN LET k == Last(st.stack) IN
         IF k < Len(toks)
         THEN Failed(st, ParseError(TokenWord(At(toks, k)), At(toks, k).pos,
                                    At(toks, k).line, NoMatchingEnd(At(toks, k))))
         ELSE Failed(st, ParseError("", 0, 0, "impossible index"))
    ELSE Failed(st, OkResult)

RECURSIVE ParseFrom(_, _)
ParseFrom(toks, st) ==
    IF st.result # NoResult THEN st
    ELSE IF st.i < Len(toks) THEN ParseFrom(toks, Arm(toks, st, At(toks, st.i)))
    ELSE AfterLoop(toks, st)

parse(toks) == ParseFrom(toks, ParseState(0, <<>>, <<>>, <<>>, NoResult))

ParseNext ==
    \/ ParseNum \/ ParseAdd \/ ParseSub \/ ParseMul \/ ParseDiv
    \/ ParsePrint \/ ParsePop \/ ParseDup \/ ParseSwap \/ ParseRot
    \/ ParseOver \/ ParseNip \/ ParseRet
    \/ ParseWhile \/ ParseIf \/ ParseEnd \/ ParseElse
    \/ ParseIdentifier \/ ParseFun \/ ParseFunMissing \/ ParseFinish

(* ---------------------------- execute --------------------------------- *)
I32Max == 2147483647

I32Min == -I32Max - 1

\* b / a for a > 0: the floor quotient, moved toward zero when b < 0.
TruncDivPos(b, a) ==
    IF b < 0 /\ b % a # 0 THEN (b \div a) + 1 ELSE b \div a

\* i32 division truncates toward zero (a # 0, and not I32Min / -1).
TruncDiv(b, a) ==
    IF a > 0 THEN TruncDivPos(b, a)
    ELSE IF a = I32Min THEN (IF b = I32Min THEN 1 ELSE 0)
    ELSE -TruncDivPos(b, -a)

\* a + b leaves the i32 range.
AddOverflows(a, b) ==
    \/ b > 0 /\ a > I32Max - b
    \/ b < 0 /\ a < I32Min - b

\* a + b modulo 2^32, computed within the i32 range.
wrapping_add(a, b) ==
    IF ~AddOverflows(a, b) THEN a + b
    ELSE IF b > 0 THEN (a - I32Max - 1) + (b - I32Max - 1)
    ELSE (a + I32Max + 1) + (b + I32Max + 1)

\* b - a leaves the i32 range.
SubOverflows(b, a) ==
    \/ a < 0 /\ b > I32Max + a
    \/ a > 0 /\ b < I32Min + a

wrapping_sub_Swapped(b, a) ==
    IF ~SubOverflows(a, b) THEN a - b ELSE 0

wrapping_sub(b, a) ==
    IF ~SubOverflows(b, a) THEN b - a
    ELSE IF a < 0 THEN (b - I32Max - 1) - (a + I32Max + 1)
    ELSE (b + I32Max + 1) - (a - I32Max - 1)

\* a * b modulo 2^32, computed within the i32 range from the 16-bit halves
\* of the operands (a = High(a) * 2^16 + Low(a), 0 <= Low(a) < 2^16).
wrapping_mul(a, b) ==
    LET Low(x) == x % 65536
        High(x) == x \div 65536
        x1 == Low(a) * (Low(b) \div 256)
        x0 == Low(a) * (Low(b) % 256)
        mid == (x1 % 256) * 256 + x0
        low16 == mid % 65536
        carry == (x1 \div 256) + (mid \div 65536)
        high16 == (carry + ((High(a) * Low(b)) % 65536)
                         + ((Low(a) * High(b)) % 65536)) % 65536
    IN IF high16 >= 32768
       THEN (high16 - 65536) * 65536 + low16
       ELSE high16 * 65536 + low16

\* a * b leaves the i32 range.
MulOverflows(a, b) ==
    /\ a # 0
    /\ b # 0
    /\ \/ (a = -1 /\ b = I32Min) \/ (b = -1 /\ a = I32Min)
       \/ /\ a # -1
          /\ TruncDiv(wrapping_mul(a, b), a) # b

StackEmpty_Zeroed(ins) ==
    [kind |-> "StackEmpty", word |-> "", pos |-> 0, line |-> 0, comment |-> ""]

StackEmpty(ins) ==
    [kind |-> "StackEmpty", word |-> "", pos |-> ins.pos, line |-> ins.line,
     comment |-> ""]

FunctionNotFound(name) ==
    [kind |-> "FunctionNotFound", word |-> name, pos |-> 0, line |-> 0,
     comment |-> ""]

Running == pc = "exec" /\ idx < Len(instructions)

instruction == At(instructions, idx)

Fetch(type) == Running /\ instruction.type = type

Push(s, n) == Append(s, n)

\* The n topmost values, the top first: Popped(s, 1) is the first value popped.
Popped(s, k) == s[Len(s) + 1 - k]

Drop(s, n) == SubSeq(s, 1, Len(s) - n)

Halt(res) ==
    /\ exec_result' = res
    /\ pc' = "done"

Underflow_Restoring ==
    /\ Halt(StackEmpty(instruction))
    /\ UNCHANGED <<vstack, idx, call_stack, result>>

\* self.pop(i)? fails on the first pop that finds the stack empty; the values
\* popped before it are gone.
Underflow ==
    /\ vstack' = <<>>
    /\ Halt(StackEmpty(instruction))
    /\ UNCHANGED <<idx, call_stack, result>>

Advance(s) ==
    /\ vstack' = s
    /\ idx' = idx + 1
    /\ UNCHANGED <<call_stack, result, exec_result, pc>>

Arith_Saturating(overflows, wrapped) ==
    IF ~overflows
    THEN Advance(Push(Drop(vstack, 2), wrapped))
    ELSE Advance(Push(Drop(vstack, 2), IF wrapped < 0 THEN I32Max ELSE I32Min))

\* An i32 operation whose exact result is out of range panics in a build
\* with overflow checks and pushes the wrapped value in a build without them.
Arith(overflows, wrapped) ==
    IF ~overflows
    THEN Advance(Push(Drop(vstack, 2), wrapped))
    ELSE \/ Advance(Push(Drop(vstack, 2), wrapped))
         \/ /\ vstack' = Drop(vstack, 2)
            /\ Halt(PanicResult)
            /\ UNCHANGED <<idx, call_stack, result>>

MainEntry_FirstDeclared ==
    CHOOSE e \in {functions[n] : n \in DOMAIN functions} :
        \A n \in DOMAIN functions : e <= functions[n]

\* program.functions.get("main"): where the execution starts.
MainEntry == functions["main"]

ExecStart ==
    /\ pc = "parsed"
    /\ parse_result.kind = "Ok"
    /\ IF "main" \in DOMAIN functions
       THEN /\ idx' = MainEntry
            /\ pc' = "exec"
            /\ UNCHANGED exec_result
       ELSE /\ Halt(FunctionNotFound("main"))
            /\ UNCHANGED idx
    /\ result' = <<>>
    /\ call_stack' = <<>>
    /\ UNCHANGED <<parserVars, callerVars, vstack>>

ExecPush ==
    /\ Fetch("Push")
    /\ Len(vstack) < MaxDepth
    /\ Advance(Push(vstack, instruction.arg))
    /\ UNCHANGED <<parserVars, callerVars>>

ExecPop ==
    /\ Fetch("Pop")
    /\ IF Len(vstack) < 1 THEN Underflow ELSE Advance(Drop(vstack, 1))
    /\ UNCHANGED <<parserVars, callerVars>>

ExecAdd ==
    /\ Fetch("Add")
    /\ IF Len(vstack) < 2 THEN Underflow
       ELSE LET a == Popped(vstack, 1)
                b == Popped(vstack, 2) IN
            Arith(AddOverflows(a, b), wrapping_add(a, b))
    /\ UNCHANGED <<parserVars, callerVars>>

ExecSub ==
    /\ Fetch("Sub")
    /\ IF Len(vstack) < 2 THEN Underflow
       ELSE LET a == Popped(vstack, 1)
                b == Popped(vstack, 2) IN
            Arith(SubOverflows(b, a), wrapping_sub(b, a))
    /\ UNCHANGED <<parserVars, callerVars>>

ExecMul ==
    /\ Fetch("Mul")
    /\ IF Len(vstack) < 2 THEN Underflow
       ELSE LET a == Popped(vstack, 1)
                b == Popped(vstack, 2) IN
            Arith(MulOverflows(a, b), wrapping_mul(a, b))
    /\ UNCHANGED <<parserVars, callerVars>>

\* b / a panics when a = 0 and when the quotient overflows, in every build.
ExecDiv ==
    /\ Fetch("Div")
    /\ IF Len(vstack) < 2 THEN Underflow
       ELSE LET a == Popped(vstack, 1)
                b == Popped(vstack, 2) IN
            IF a = 0 \/ (b = I32Min /\ a = -1)
            THEN /\ vstack' = Drop(vstack, 2)
                 /\ Halt(PanicResult)
                 /\ UNCHANGED <<idx, call_stack, result>>
            ELSE Advance(Push(Drop(vstack, 2), TruncDiv(b, a)))
    /\ UNCHANGED <<parserVars, callerVars>>

Emit_Front(out, n) == <<n>> \o out

\* result.push(n): the output grows at its end.
Emit(out, n) == Append(out, n)

ExecPrint ==
    /\ Fetch("Print")
    /\ Len(result) < MaxOutput
    /\ IF Len(vstack) < 1 THEN Underflow
       ELSE /\ result' = Emit(result, Popped(vstack, 1))
            /\ vstack' = Drop(vstack, 1)
            /\ idx' = idx + 1
            /\ UNCHANGED <<call_stack, exec_result, pc>>
    /\ UNCHANGED <<parserVars, callerVars>>

ExecDup ==
    /\ Fetch("Dup")
    /\ Len(vstack) < MaxDepth
    /\ IF Len(vstack) < 1 THEN Underflow
       ELSE LET n == Popped(vstack, 1) IN
            Advance(Push(Push(Drop(vstack, 1), n), n))
    /\ UNCHANGED <<parserVars, callerVars>>

swap_Kept(s) == s

\* swap on a stack of two values or more: pop a, pop b, push a, push b.
swap(s) ==
    LET a == Popped(s, 1)
        b == Popped(s, 2) IN
    Push(Push(Drop(s, 2), a), b)

ExecSwap ==
    /\ Fetch("Swap")
    /\ IF Len(vstack) < 2 THEN Underflow
       ELSE Advance(swap(vstack))
    /\ UNCHANGED <<parserVars, callerVars>>

rot_WholeStack(s) == Tail(s) \o <<Head(s)>>

\* rot on a stack of three values or more: pop a, pop b, pop c, push b,
\* push a, push c.
rot(s) ==
    LET a == Popped(s, 1)
        b == Popped(s, 2)
        c == Popped(s, 3) IN
    Push(Push(Push(Drop(s, 3), b), a), c)

ExecRot ==
    /\ Fetch("Rot")
    /\ IF Len(vstack) < 3 THEN Underflow
       ELSE Advance(rot(vstack))
    /\ UNCHANGED <<parserVars, callerVars>>

over_Top(s) ==
    LET a == Popped(s, 1)
        b == Popped(s, 2) IN
    Push(Push(Push(Drop(s, 2), b), a), a)

\* over on a stack of two values or more: pop a, pop b, push b, push a,
\* push b.
over(s) ==
    LET a == Popped(s, 1)
        b == Popped(s, 2) IN
    Push(Push(Push(Drop(s, 2), b), a), b)

ExecOver ==
    /\ Fetch("Over")
    /\ Len(vstack) < MaxDepth
    /\ IF Len(vstack) < 2 THEN Underflow
       ELSE Advance(over(vstack))
    /\ UNCHANGED <<parserVars, callerVars>>

nip_Second(s) == Push(Drop(s, 2), Popped(s, 2))

\* nip on a stack of two values or more: pop x, pop, push x.
nip(s) ==
    LET x == Popped(s, 1) IN
    Push(Drop(s, 2), x)

ExecNip ==
    /\ Fetch("Nip")
    /\ IF Len(vstack) < 2 THEN Underflow
       ELSE Advance(nip(vstack))
    /\ UNCHANGED <<parserVars, callerVars>>

\* self.peek(i)? reads the top and leaves the stack as it is.
PeekFails ==
    /\ Halt(StackEmpty(instruction))
    /\ UNCHANGED <<vstack, idx, call_stack, result>>

Jump_Continue(taken, jmp_pos) ==
    /\ idx' = (IF taken THEN jmp_pos ELSE idx + 1)
    /\ UNCHANGED <<vstack, call_stack, result, exec_result, pc>>

\* idx = jmp_pos when the jump is taken, then the loop's idx += 1.
Jump(taken, jmp_pos) ==
    /\ idx' = (IF taken THEN jmp_pos ELSE idx) + 1
    /\ UNCHANGED <<vstack, call_stack, result, exec_result, pc>>

ExecWhile_Consuming ==
    /\ Fetch("While")
    /\ IF vstack = <<>> THEN PeekFails
       ELSE /\ vstack' = Drop(vstack, 1)
            /\ idx' = (IF Last(vstack) = 0 THEN instruction.arg ELSE idx) + 1
            /\ UNCHANGED <<call_stack, result, exec_result, pc>>
    /\ UNCHANGED <<parserVars, callerVars>>

ExecWhile ==
    /\ Fetch("While")
    /\ IF vstack = <<>> THEN PeekFails
       ELSE Jump(Last(vstack) = 0, instruction.arg)
    /\ UNCHANGED <<parserVars, callerVars>>

ExecEndWhile_Inverted ==
    /\ Fetch("EndWhile")
    /\ IF vstack = <<>> THEN PeekFails
       ELSE Jump(Last(vstack) = 0, instruction.arg)
    /\ UNCHANGED <<parserVars, callerVars>>

ExecEndWhile ==
    /\ Fetch("EndWhile")
    /\ IF vstack = <<>> THEN PeekFails
       ELSE Jump(Last(vstack) # 0, instruction.arg)
    /\ UNCHANGED <<parserVars, callerVars>>

ExecIf ==
    /\ Fetch("If")
    /\ IF vstack = <<>> THEN PeekFails
       ELSE Jump(Last(vstack) = 0, instruction.arg)
    /\ UNCHANGED <<parserVars, callerVars>>

ExecElse_Restart ==
    /\ Fetch("Else")
    /\ idx' = MainEntry
    /\ UNCHANGED <<vstack, call_stack, result, exec_result, pc>>
    /\ UNCHANGED <<parserVars, callerVars>>

ExecElse ==
    /\ Fetch("Else")
    /\ Jump(TRUE, instruction.arg)
    /\ UNCHANGED <<parserVars, callerVars>>

ExecEndIf ==
    /\ Fetch("EndIf")
    /\ Jump(FALSE, 0)
    /\ UNCHANGED <<parserVars, callerVars>>

ReturnIndex_CallSite(jmp_pos) == jmp_pos

\* idx = jmp_pos + 1: a return continues right after the call site.
ReturnIndex(jmp_pos) == jmp_pos + 1

ExecRet_FallsThrough ==
    /\ Fetch("Ret")
    /\ IF call_stack # <<>>
       THEN /\ idx' = ReturnIndex(Last(call_stack))
            /\ call_stack' = Front(call_stack)
       ELSE /\ idx' = idx + 1
            /\ UNCHANGED call_stack
    /\ UNCHANGED <<parserVars, callerVars, vstack, result, exec_result, pc>>

ExecRet ==
    /\ Fetch("Ret")
    /\ IF call_stack # <<>>
       THEN /\ idx' = ReturnIndex(Last(call_stack))
            /\ call_stack' = Front(call_stack)
            /\ UNCHANGED <<exec_result, pc>>
       ELSE /\ Halt(OkResult)
            /\ UNCHANGED <<idx, call_stack>>
    /\ UNCHANGED <<parserVars, callerVars, vstack, result>>

ExecCall_PushTarget ==
    /\ Fetch("Call")
    /\ Len(call_stack) < MaxCalls
    /\ call_stack' = Append(call_stack, instruction.arg)
    /\ idx' = instruction.arg
    /\ UNCHANGED <<parserVars, callerVars, vstack, result, exec_result, pc>>

ExecCall ==
    /\ Fetch("Call")
    /\ Len(call_stack) < MaxCalls
    /\ call_stack' = Append(call_stack, idx)
    /\ idx' = instruction.arg
    /\ UNCHANGED <<parserVars, callerVars, vstack, result, exec_result, pc>>

\* The loop guard idx < program.instructions.len() fails: Ok(result).
ExecFinish ==
    /\ pc = "exec"
    /\ idx >= Len(instructions)
    /\ Halt(OkResult)
    /\ UNCHANGED <<parserVars, callerVars, vstack, call_stack, result, idx>>

ExecNext ==
    \/ ExecStart
    \/ ExecPush \/ ExecPop \/ ExecAdd \/ ExecSub \/ ExecMul \/ ExecDiv
    \/ ExecPrint \/ ExecDup \/ ExecSwap \/ ExecRot \/ ExecOver \/ ExecNip
    \/ ExecWhile \/ ExecEndWhile \/ ExecIf \/ ExecElse \/ ExecEndIf
    \/ ExecRet \/ ExecCall \/ ExecFinish

Next == ParseNext \/ ExecNext

Spec == Init /\ [][Next]_vars

(* ---------------------------- programs built directly ----------------- *)
\* A Program handed to execute without a parse, as the unit tests of the
\* machine build it: a vector of instructions and the table main -> 0.
to_program == Insert(<<>>, "main", 0)

Values == {-7, 0, 2, I32Max}

OpTypes == PlainTypes \ {"Num", "Ret"}

\* The instructions of the given kinds <<type, payload>>, the k-th one
\* carrying the pos and line of the k-th place of the layout.
Placed(kinds) ==
    [k \in 1..Len(kinds) |->
        Instruction(kinds[k][1], kinds[k][2], Token(kinds[k][1], 0, "", k - 1))]

\* Straight-line programs: some pushes, then some operations.
StraightProgram(ins) ==
    \E np \in 0..MaxPushes, no \in 0..MaxOps :
        \E p \in [1..np -> {<<"Push", v>> : v \in Values}],
           o \in [1..no -> {<<t, 0>> : t \in OpTypes}] :
            ins = Placed(p \o o)

\* Short programs of jumps, calls and returns with every payload in range.
ControlKinds ==
    {<<"Push", v>> : v \in NumValues} \cup {<<"Pop", 0>>, <<"Ret", 0>>}
      \cup {<<t, j>> : t \in {"While", "EndWhile", "If", "Call"},
                       j \in 0..(MaxControl - 1)}

ControlProgram(ins) ==
    \E n \in 0..MaxControl : \E c \in [1..n -> ControlKinds] : ins = Placed(c)

\* test_stack_machine::while_loop, counting down from n; the While carries
\* 7 in the test and 6 when it names its EndWhile.
CountDown(n, t) ==
    Placed(<< <<"Push", n>>, <<"While", t>>, <<"Push", 5>>, <<"Print", 0>>,
              <<"Push", 1>>, <<"Sub", 0>>, <<"EndWhile", 1>> >>)

LoopProgram(ins) ==
    \E n \in 0..MaxOutput, t \in {6, 7} : ins = CountDown(n, t)

\* The first block of test_stack_machine::test_if_else_program.
IfElse(v) ==
    Placed(<< <<"Push", v>>, <<"If", 3>>, <<"Print", 0>>, <<"Else", 7>>,
              <<"Pop", 0>>, <<"Push", 5>>, <<"Print", 0>>, <<"EndIf", 0>> >>)

BranchProgram(ins) == \E v \in Values : ins = IfElse(v)

\* Programs of the plain kinds in any order.
PlainProgram(ins) ==
    \E n \in 0..MaxChecked :
        \E c \in [1..n -> {<<"Push", v>> : v \in Values}
                              \cup {<<t, 0>> : t \in OpTypes}] :
            ins = Placed(c)

\* The programs of test_stack_machine's swap_operation, rot_operation,
\* over_operation and nip_operation.
swap_operation ==
    Placed(<< <<"Push", 1>>, <<"Push", 2>>, <<"Swap", 0>>, <<"Print", 0>>,
              <<"Print", 0>> >>)

rot_operation ==
    Placed(<< <<"Push", 1>>, <<"Push", 2>>, <<"Push", 3>>, <<"Rot", 0>>,
              <<"Print", 0>>, <<"Print", 0>>, <<"Print", 0>> >>)

over_operation ==
    Placed(<< <<"Push", 1>>, <<"Push", 2>>, <<"Over", 0>>, <<"Print", 0>>,
              <<"Print", 0>>, <<"Print", 0>> >>)

nip_operation ==
    Placed(<< <<"Push", 0>>, <<"Push", 1>>, <<"Push", 2>>, <<"Nip", 0>>,
              <<"Print", 0>>, <<"Print", 0>> >>)

TestProgram(ins) ==
    ins \in {swap_operation, rot_operation, over_operation, nip_operation}

\* One stack operation on a stack deeper than its operands: MaxDepth - 1 or
\* MaxDepth pushes, then the operation.
DeepProgram(ins) ==
    \E n \in (MaxDepth - 1)..MaxDepth :
        \E p \in [1..n -> {<<"Push", v>> : v \in Values}] :
            \E t \in {"Swap", "Rot", "Over", "Nip"} :
                ins = Placed(p \o << <<t, 0>> >>)

\* A new machine, StackMachine::new(VecStack::new()), and no program yet.
MachineInit ==
    /\ tokens = <<>>
    /\ i = 0
    /\ instructions = <<>>
    /\ stack = <<>>
    /\ functions = <<>>
    /\ parse_result = NoResult
    /\ vstack = <<>>
    /\ call_stack = <<>>
    /\ result = <<>>
    /\ idx = 0
    /\ exec_result = NoResult
    /\ reused = FALSE
    /\ check_result = NoResult
    /\ pc = "build"

\* The caller builds the Program it hands to execute.
BuildProgram ==
    /\ pc = "build"
    /\ \/ StraightProgram(instructions')
       \/ ControlProgram(instructions')
       \/ LoopProgram(instructions')
       \/ BranchProgram(instructions')
       \/ PlainProgram(instructions')
       \/ TestProgram(instructions')
       \/ DeepProgram(instructions')
    /\ functions' = to_program
    /\ parse_result' = OkResult
    /\ pc' = "parsed"
    /\ UNCHANGED <<tokens, i, stack, machineVars, callerVars>>

MachineNext == BuildProgram \/ ExecNext

MachineSpec == MachineInit /\ [][MachineNext]_vars

(* ---------------------------- a machine used twice -------------------- *)
\* Short straight-line programs handed to a machine that has run before.
AgainProgram(ins) ==
    \E n \in 0..MaxAgain :
        \E c \in [1..n -> {<<"Push", v>> : v \in NumValues}
                              \cup {<<t, 0>> : t \in OpTypes}] :
            ins = Placed(c)

\* The caller hands a second Program to the machine whose execute has
\* returned; the machine is the same object, self.0 included.
ExecuteAgain ==
    /\ pc = "done"
    /\ ~reused
    /\ exec_result.kind # "Panic"
    /\ AgainProgram(instructions')
    /\ functions' = to_program
    /\ exec_result' = NoResult
    /\ reused' = TRUE
    /\ pc' = "parsed"
    /\ UNCHANGED <<tokens, i, stack, parse_result, vstack, call_stack, result,
                   idx, check_result>>

ReuseNext == MachineNext \/ ExecuteAgain

ReuseSpec == MachineInit /\ [][ReuseNext]_vars

(* ---------------------------- check_stack_safety ---------------------- *)
StaticCheck ==
    [kind |-> "StaticCheck", word |-> "", pos |-> 0, line |-> 0, comment |-> ""]

\* The kinds whose arm compares stack_size with a minimum, and that minimum.
CheckedTypes ==
    {"Add", "Sub", "Mul", "Div", "Print", "Dup", "Swap", "Rot", "Over", "Nip"}

CheckedArity(type) ==
    CASE type \in {"Print", "Dup"} -> 1
      [] type = "Rot" -> 3
      [] OTHER -> 2

\* What the arm of a kind adds to stack_size: the arms of Swap, Rot, Over
\* and Nip leave it as it is.
CheckedDelta(type) ==
    CASE type \in {"Push", "Dup"} -> 1
      [] type \in {"Pop", "Add", "Sub", "Mul", "Div", "Print"} -> -1
      [] OTHER -> 0

\* The for loop from the k-th instruction on, then the final test; the arms
\* of the control kinds are todo!().
RECURSIVE CheckFrom(_, _, _)
CheckFrom(program, k, stack_size) ==
    IF k > Len(program)
    THEN IF stack_size >= 0 THEN OkResult ELSE StaticCheck
    ELSE LET type == program[k].type IN
         IF type \notin CheckedTypes \cup {"Push", "Pop"} THEN PanicResult
         ELSE IF type \in CheckedTypes /\ stack_size < CheckedArity(type)
         THEN StaticCheck
         ELSE CheckFrom(program, k + 1, stack_size + CheckedDelta(type))

check_stack_safety(program) == CheckFrom(program, 1, 0)

\* The caller checks the Program it has built, before any execute; a panic
\* of the check ends the process.
CheckStackSafety ==
    /\ pc = "parsed"
    /\ parse_result.kind = "Ok"
    /\ check_result = NoResult
    /\ check_result' = check_stack_safety(instructions)
    /\ pc' = IF check_stack_safety(instructions).kind = "Panic" THEN "done" ELSE pc
    /\ UNCHANGED <<parserVars, machineVars, reused>>

CheckNext == MachineNext \/ CheckStackSafety

CheckSpec == MachineInit /\ [][CheckNext]_vars

(* ---------------------------- properties ------------------------------ *)
Indices == 0..(Len(instructions) - 1)

Accepted == parse_result.kind = "Ok"

\* The structure of the blocks, read off the instruction kinds alone.
Opens(m) == At(instructions, m).type \in {"While", "If"}

Closes(m) == At(instructions, m).type \in {"EndWhile", "EndIf"}

Balance(k, j) ==
    Cardinality({m \in (k + 1)..(j - 1) : Opens(m)})
      - Cardinality({m \in (k + 1)..(j - 1) : Closes(m)})

Min(S) == CHOOSE x \in S : \A y \in S : x <= y

\* The instruction that structurally closes the opener at k: the Else of an
\* If, the EndWhile of a While, the EndIf of an Else; -1 when there is none.
Closer(k) ==
    LET cands == {j \in Indices :
                    /\ j > k
                    /\ Balance(k, j) = 0
                    /\ IF At(instructions, k).type = "If"
                       THEN At(instructions, j).type = "Else"
                       ELSE Closes(j)}
    IN IF cands = {} THEN -1 ELSE Min(cands)

\* The token an instruction was made from.
TokenOf(k) ==
    CHOOSE t \in {tokens[m] : m \in 1..Len(tokens)} :
        t.pos = At(instructions, k).pos /\ t.line = At(instructions, k).line

\* The action reads exactly one token, of the given kind.
Reads(type) ==
    /\ pc = "parse"
    /\ Len(tokens') = Len(tokens) + 1
    /\ Last(tokens').type = type

\* The input ends here: the end-of-input check runs.
InputEnds == pc = "parse" /\ pc' = "parsed" /\ tokens' = tokens

\* The next instruction executed is the one at t, or execution leaves the
\* loop when there is no instruction at t.
LandsAt(t) ==
    IF t < Len(instructions)
    THEN idx' = t /\ pc' = "exec"
    ELSE idx' >= Len(instructions)

\* The program is 'fun main' followed by the body of main.
MainFirst ==
    /\ Len(tokens) >= 2
    /\ tokens[1].type = "Fun"
    /\ tokens[2].name = "main"
    /\ \A m \in 3..Len(tokens) : tokens[m].type # "Fun"

TopIs(zero) == vstack # <<>> /\ ((Last(vstack) = 0) = zero)

\* C1: in every accepted program each While carries the index of the
\* EndWhile that closes it, each If the index of its Else and each Else the
\* index of its EndIf.
C1_ForwardEdges ==
    Accepted =>
        \A k \in Indices :
            At(instructions, k).type \in {"While", "If", "Else"}
                => At(instructions, k).arg = Closer(k)

\* C2: in every accepted program the jump target of every While, If and Else
\* is a valid instruction index.
C2_TargetsInRange ==
    Accepted =>
        \A k \in Indices :
            At(instructions, k).type \in {"While", "If", "Else"}
                => At(instructions, k).arg < Len(instructions)

\* C3: a While executed with 0 on top continues with the instruction right
\* after its matching EndWhile, or ends the execution when that EndWhile is
\* the last instruction.
C3_WhileSkipsLoop ==
    [][(MainFirst /\ Fetch("While") /\ TopIs(TRUE)) => LandsAt(Closer(idx) + 1)]_vars

\* C4: an If executed with a non-zero top continues with the first
\* instruction of the then-branch; executed with 0 on top it continues with
\* the first instruction of the else-branch (when that branch is not empty,
\* otherwise nothing before the EndIf runs); the Else that ends the
\* then-branch continues right after the EndIf.
C4_IfElseBranches ==
    [][MainFirst =>
          /\ (Fetch("If") /\ TopIs(FALSE)) => LandsAt(idx + 1)
          /\ (Fetch("If") /\ TopIs(TRUE)) =>
                IF Closer(Closer(idx)) > Closer(idx) + 1
                THEN LandsAt(Closer(idx) + 1)
                ELSE idx' >= Closer(idx) + 1
          /\ Fetch("Else") => LandsAt(Closer(idx) + 1)]_vars

\* C5: parse never aborts: it ends with a Program or with a Parse error.
C5_ParseNeverAborts == parse_result.kind # "Panic"

\* C6: an 'end' met while the resolution stack is empty fails the parse with
\* a Parse error whose word is "end" and whose pos and line are the token's.
C6_UnmatchedEnd ==
    [][(Reads("End") /\ stack = <<>>) =>
          /\ pc' = "parsed"
          /\ parse_result'.kind = "Parse"
          /\ parse_result'.word = "end"
          /\ parse_result'.pos = Last(tokens').pos
          /\ parse_result'.line = Last(tokens').line
          /\ instructions' = instructions]_vars

C6_Witness ==
    /\ pc = "parsed"
    /\ Len(tokens) >= 2
    /\ Last(tokens).type = "End"
    /\ parse_result.kind = "Parse"
    /\ parse_result.comment = "Unexpected 'end'"
    /\ parse_result.pos = Last(tokens).pos
    /\ parse_result.line > 1

\* The error that names a token as an opener without its end.
NamesToken(res, tok) ==
    /\ res.kind = "Parse"
    /\ res.word = TokenWord(tok)
    /\ res.pos = tok.pos
    /\ res.line = tok.line
    /\ res.comment = NoMatchingEnd(tok)

\* FunsBefore(k): the 'fun' tokens that precede the token of instruction k.
FunsBefore(k) ==
    {m \in 1..Len(tokens) :
        /\ tokens[m].type = "Fun"
        /\ \/ tokens[m].line < At(instructions, k).line
           \/ /\ tokens[m].line = At(instructions, k).line
              /\ tokens[m].pos < At(instructions, k).pos}

\* C7 as stated: with more than one block open at the end of the input the
\* error names the outermost unmatched opener.
C7_NamesOutermost ==
    [][(InputEnds /\ Len(stack) > 1) =>
          NamesToken(parse_result', TokenOf(stack[1]))]_vars

\* C7 amended: with more than one block open at the end of the input the
\* error names the token whose index in the token sequence is the instruction
\* index of the innermost unmatched opener (the one opened last); with no
\* 'fun' before that opener this is the innermost opener's own token.
C7_NamesInnermostIndex ==
    [][(InputEnds /\ Len(stack) > 1) =>
          /\ NamesToken(parse_result', At(tokens, Last(stack)))
          /\ FunsBefore(Last(stack)) = {}
                => NamesToken(parse_result', TokenOf(Last(stack)))]_vars

C7_Witness ==
    /\ pc = "parsed"
    /\ Len(stack) >= 1
    /\ parse_result.kind = "Parse"
    /\ parse_result.word = "if"
    /\ parse_result.comment = "This 'if' has no matching end"
    /\ At(instructions, stack[1]).type = "While"
    /\ Len(instructions) > 2

\* C8: at the end of the input an unclosed 'while' or 'if' is reported with
\* the word, pos and line of the token that opened it and the comment
\* "This '<word>' has no matching end".
C8_NamesOpener ==
    [][(/\ InputEnds
        /\ Len(stack) = 1
        /\ At(instructions, stack[1]).type \in {"While", "If"}) =>
          NamesToken(parse_result', TokenOf(stack[1]))]_vars

\* C9: an 'else' whose innermost open block is not an 'if' fails the parse
\* with a Parse error at the 'else' token; when an opener was popped the
\* comment is "This 'else' has no matching if"; no Else instruction is
\* emitted.
C9_ElseWithoutIf ==
    [][(Reads("Else") /\ (stack = <<>> \/ At(instructions, Last(stack)).type # "If")) =>
          /\ pc' = "parsed"
          /\ parse_result'.kind = "Parse"
          /\ parse_result'.pos = Last(tokens').pos
          /\ parse_result'.line = Last(tokens').line
          /\ stack # <<>> => parse_result'.comment = "This 'else' has no matching if"
          /\ instructions' = instructions]_vars

C9_Witness ==
    /\ pc = "parsed"
    /\ Len(tokens) >= 3
    /\ Len(instructions) >= 2
    /\ Last(tokens).type = "Else"
    /\ parse_result.kind = "Parse"
    /\ parse_result.comment = "This 'else' has no matching if"
    /\ parse_result.pos = Last(tokens).pos
    /\ Last(instructions).type = "Else"

\* C10: 'fun <name>' records functions[name] = the number of instructions
\* emitted so far, appends no instruction and consumes the identifier
\* without treating it as a call; the other entries stay as they are.
C10_FunRecordsEntry ==
    [][(/\ pc = "parse"
        /\ Len(tokens') = Len(tokens) + 2
        /\ tokens'[Len(tokens) + 1].type = "Fun"
        /\ Last(tokens').type = "Identifier") =>
          LET name == Last(tokens').name IN
          /\ name \in DOMAIN functions'
          /\ functions'[name] = Len(instructions)
          /\ \A other \in DOMAIN functions \ {name} :
                other \in DOMAIN functions' /\ functions'[other] = functions[other]
          /\ DOMAIN functions' = DOMAIN functions \cup {name}
          /\ instructions' = instructions
          /\ i' = i + 2
          /\ pc' = "parse"
          /\ parse_result' = parse_result]_vars

C10_Witness ==
    /\ pc = "parse"
    /\ Len(tokens) >= 3
    /\ Last(tokens).type = "Identifier"
    /\ tokens[Len(tokens) - 1].type = "Fun"
    /\ Last(tokens).name \in DOMAIN functions
    /\ functions[Last(tokens).name] = Len(instructions)
    /\ Len(instructions) >= 1

\* C11: an identifier whose name no earlier 'fun <name>' has declared fails
\* the parse with a Parse error whose word is the identifier, whose pos and
\* line are the identifier token's and whose comment is "Function not found";
\* the parse ends there, so no later declaration can make the call valid.
C11_UndeclaredCall ==
    [][(Reads("Identifier") /\ Last(tokens').name \notin DOMAIN functions) =>
          /\ pc' = "parsed"
          /\ parse_result'.kind = "Parse"
          /\ parse_result'.word = Last(tokens').name
          /\ parse_result'.pos = Last(tokens').pos
          /\ parse_result'.line = Last(tokens').line
          /\ parse_result'.comment = "Function not found"
          /\ instructions' = instructions
          /\ functions' = functions]_vars

C11_Witness ==
    /\ pc = "parsed"
    /\ Len(tokens) >= 3
    /\ Last(tokens).type = "Identifier"
    /\ tokens[Len(tokens) - 1].type # "Fun"
    /\ Last(tokens).name = "f"
    /\ "main" \in DOMAIN functions
    /\ "f" \notin DOMAIN functions
    /\ parse_result = ParseError("f", Last(tokens).pos, Last(tokens).line, "Function not found")

\* C12: an identifier that names a declared function appends exactly one
\* instruction, Call(e) with e the entry recorded for the name at that moment;
\* executing a Call(e) makes the instruction at e the next one executed.
C12_CallDeclared ==
    [][/\ (Reads("Identifier") /\ Last(tokens').name \in DOMAIN functions) =>
            /\ Len(instructions') = Len(instructions) + 1
            /\ SubSeq(instructions', 1, Len(instructions)) = instructions
            /\ Last(instructions').type = "Call"
            /\ Last(instructions').arg = functions[Last(tokens').name]
            /\ pc' = "parse"
       /\ (Fetch("Call") /\ instruction.arg < Len(instructions)) =>
            idx' = instruction.arg /\ pc' = "exec"]_vars

C12_Witness ==
    /\ pc = "exec"
    /\ Len(instructions) >= 3
    /\ call_stack # <<>>
    /\ At(instructions, Last(call_stack)).type = "Call"
    /\ At(instructions, Last(call_stack)).arg = idx
    /\ "f" \in DOMAIN functions
    /\ idx = functions["f"]
    /\ idx > 0
    /\ functions["main"] > idx

\* C13: a 'fun' that is the last token, or that is followed by a token that
\* is not an identifier, fails the parse with a Parse error whose comment is
\* "Function name is missing" and whose pos and line are the 'fun' token's;
\* the function table gains no entry.
C13_FunWithoutName ==
    [][(/\ pc = "parse"
        /\ Len(tokens') > Len(tokens)
        /\ tokens'[Len(tokens) + 1].type = "Fun"
        /\ \/ Len(tokens') = Len(tokens) + 1
           \/ tokens'[Len(tokens) + 2].type # "Identifier") =>
          /\ pc' = "parsed"
          /\ parse_result'.kind = "Parse"
          /\ parse_result'.comment = "Function name is missing"
          /\ parse_result'.pos = tokens'[Len(tokens) + 1].pos
          /\ parse_result'.line = tokens'[Len(tokens) + 1].line
          /\ functions' = functions
          /\ instructions' = instructions]_vars

C13_Witness ==
    /\ pc = "parsed"
    /\ Len(tokens) >= 4
    /\ tokens[Len(tokens) - 1].type = "Fun"
    /\ Last(tokens).type = "Num"
    /\ parse_result.kind = "Parse"
    /\ parse_result.comment = "Function name is missing"
    /\ parse_result.pos = tokens[Len(tokens) - 1].pos
    /\ parse_result.line = tokens[Len(tokens) - 1].line
    /\ DOMAIN functions = {"main"}

\* C14: the execution of a Program starts at the instruction index recorded
\* for 'main'; when the table has no 'main' it ends at once with
\* FunctionNotFound{name: "main"}, the value stack as it was and no output.
C14_StartsAtMain ==
    [][(pc = "parsed" /\ Accepted /\ pc' # "parsed") =>
          IF "main" \in DOMAIN functions
          THEN /\ pc' = "exec"
               /\ idx' = functions["main"]
               /\ exec_result' = exec_result
          ELSE /\ pc' = "done"
               /\ exec_result'.kind = "FunctionNotFound"
               /\ exec_result'.word = "main"
               /\ vstack' = vstack
               /\ result' = <<>>]_vars

C14_Witness ==
    /\ pc = "done"
    /\ exec_result = FunctionNotFound("main")
    /\ DOMAIN functions = {"f"}
    /\ Len(instructions) >= 2
    /\ result = <<>>
    /\ vstack = <<>>

\* C15: the output of an execution is the values popped by the Prints it
\* executed, in their order: execute starts with an empty output, each
\* executed Print takes the top of the value stack off and appends it, and no
\* other instruction touches the output; so Push(n); Print returns [n].
C15_OutputIsThePrints ==
    [][/\ pc = "parsed" => result' = <<>>
       /\ (Fetch("Print") /\ vstack # <<>>) =>
            /\ result' = Append(result, Last(vstack))
            /\ vstack' = Front(vstack)
            /\ pc' = "exec"
       /\ (pc = "exec" /\ ~Fetch("Print")) => result' = result
       /\ (/\ Len(instructions) = 2
           /\ instructions[1].type = "Push"
           /\ instructions[2].type = "Print"
           /\ pc' = "done") =>
            exec_result'.kind = "Ok" /\ result' = <<instructions[1].arg>>]_vars

C15_Witness ==
    /\ pc = "done"
    /\ exec_result.kind = "Ok"
    /\ Len(instructions) = 4
    /\ instructions[4].type = "Print"
    /\ result = <<2, -7>>
    /\ vstack = <<>>

Abs(x) == IF x < 0 THEN -x ELSE x

\* q is x / y truncated toward zero: the remainder x - q * y is smaller than
\* y in magnitude and is zero or of the sign of x.
IsTruncQuot(q, x, y) ==
    LET r == x - q * y IN
    /\ Abs(r) < Abs(y)
    /\ x >= 0 => r >= 0
    /\ x <= 0 => r <= 0

\* C16: for all x and y, a Sub executed with x below y on the value stack
\* takes both off and leaves the i32 value x - y; a Div with y # 0 takes both
\* off and leaves x / y truncated toward zero.
C16_SubDivOperands ==
    [][Len(vstack) >= 2 =>
          LET x == vstack[Len(vstack) - 1]
              y == Last(vstack) IN
          /\ Fetch("Sub") =>
                /\ ~SubOverflows(x, y)
                /\ pc' = "exec"
                /\ vstack' = Append(Drop(vstack, 2), x - y)
          /\ (Fetch("Div") /\ y # 0) =>
                /\ pc' = "exec"
                /\ Len(vstack') = Len(vstack) - 1
                /\ Drop(vstack', 1) = Drop(vstack, 2)
                /\ IsTruncQuot(Last(vstack'), x, y)]_vars

\* The number of values an instruction takes or reads from the value stack.
Needs(type) ==
    CASE type \in {"Pop", "Print", "Dup", "While", "EndWhile", "If"} -> 1
      [] type \in {"Add", "Sub", "Mul", "Div", "Swap", "Over", "Nip"} -> 2
      [] type = "Rot" -> 3
      [] OTHER -> 0

\* C17: an instruction that needs more values than the value stack holds
\* ends the execution with StackEmpty carrying the pos and line of that
\* instruction: the execution stops there and returns no output.
C17_Underflow ==
    [][(Running /\ Len(vstack) < Needs(instruction.type)) =>
          /\ pc' = "done"
          /\ exec_result'.kind = "StackEmpty"
          /\ exec_result'.pos = instruction.pos
          /\ exec_result'.line = instruction.line
          /\ idx' = idx
          /\ result' = result]_vars

C17_Witness ==
    /\ pc = "done"
    /\ Len(instructions) = 4
    /\ instructions[1].type = "Push" /\ instructions[1].arg = 2
    /\ instructions[2].type = "Push" /\ instructions[2].arg = 2
    /\ instructions[3].type = "Print"
    /\ instructions[4].type = "Add"
    /\ idx = 3
    /\ exec_result = StackEmpty(instructions[4])
    /\ exec_result.line = 2

\* The program is the countdown loop from some n >= 1.
IsCountDown ==
    /\ Len(instructions) = 7
    /\ instructions[1].arg >= 1
    /\ \E t \in {6, 7} : instructions = CountDown(instructions[1].arg, t)

Fives(n) == [k \in 1..n |-> 5]

\* The number of steps a countdown execution still has to take: five for
\* every turn of the loop left, and the way to the end of the current turn.
StepsLeft ==
    LET n == instructions[1].arg
        c == IF vstack = <<>> THEN n ELSE vstack[1]
    IN CASE pc = "done" -> 0
         [] pc = "parsed" -> 5 * n + 8
         [] pc = "exec" /\ idx = 0 -> 5 * n + 7
         [] pc = "exec" /\ idx \in {1, 6} -> 5 * c + 6
         [] pc = "exec" /\ idx \in 2..5 -> 5 * c + 7 - idx
         [] OTHER -> 1

\* C18: for every n >= 1 the execution of Push(n); While; Push(5); Print;
\* Push(1); Sub; EndWhile terminates (every step is followed by another
\* until the end, and each one lowers the number of steps left), and it ends
\* with Ok, an output of exactly n fives and 0 on top of the value stack.
C18_CountDownLoop ==
    /\ [](IsCountDown =>
            /\ StepsLeft >= 0
            /\ pc # "done" => ENABLED MachineNext
            /\ pc = "done" =>
                  /\ exec_result.kind = "Ok"
                  /\ result = Fives(instructions[1].arg)
                  /\ vstack # <<>>
                  /\ Last(vstack) = 0)
    /\ [][IsCountDown => StepsLeft' < StepsLeft]_vars

C18_Witness ==
    /\ pc = "done"
    /\ instructions = CountDown(3, 7)
    /\ exec_result.kind = "Ok"
    /\ result = <<5, 5, 5>>
    /\ vstack = <<0>>

\* C19: an EndWhile(t) executed with a non-zero top continues at index
\* t + 1, the first instruction of the loop body; with 0 on top it continues
\* with the instruction after the EndWhile; the value tested stays on the
\* stack in both cases.
C19_EndWhileGoesBack ==
    [][(Fetch("EndWhile") /\ vstack # <<>>) =>
          /\ pc' = "exec"
          /\ vstack' = vstack
          /\ idx' = IF Last(vstack) # 0 THEN instruction.arg + 1 ELSE idx + 1]_vars

C19_Witness ==
    /\ pc = "exec"
    /\ Len(instructions) = 7
    /\ instructions[7].type = "EndWhile"
    /\ instructions[7].arg = 1
    /\ idx = 2
    /\ vstack = <<1>>
    /\ result = <<5>>

\* C20: a Call(entry) executed at index k pushes k on the call stack and
\* continues at entry itself; a Ret takes the most recent call site k off the
\* call stack and continues at k + 1, so nested calls return last in, first
\* out.
C20_CallAndReturn ==
    [][/\ Fetch("Call") =>
            /\ call_stack' = Append(call_stack, idx)
            /\ idx' = instruction.arg
            /\ pc' = "exec"
       /\ (Fetch("Ret") /\ call_stack # <<>>) =>
            /\ idx' = Last(call_stack) + 1
            /\ call_stack' = Front(call_stack)
            /\ pc' = "exec"]_vars

C20_Witness ==
    /\ pc = "exec"
    /\ Len(instructions) = 3
    /\ instructions[1].type = "Call" /\ instructions[1].arg = 1
    /\ instructions[2].type = "Call" /\ instructions[2].arg = 2
    /\ instructions[3].type = "Ret"
    /\ idx = 2
    /\ call_stack = <<0>>

\* C21: execute returns Ok in exactly two situations, idx past the last
\* instruction and a Ret executed on an empty call stack; in both the value
\* returned is the output accumulated so far, and nothing is executed after a
\* Ret on an empty call stack even when instructions remain.
C21_OkOnlyAtEndOrRet ==
    [][pc = "exec" =>
          /\ (idx >= Len(instructions) \/ (Fetch("Ret") /\ call_stack = <<>>)) =>
                /\ pc' = "done"
                /\ exec_result'.kind = "Ok"
                /\ result' = result
                /\ idx' = idx
          /\ exec_result'.kind = "Ok" =>
                (idx >= Len(instructions) \/ (Fetch("Ret") /\ call_stack = <<>>))]_vars

C21_Witness ==
    /\ pc = "done"
    /\ exec_result.kind = "Ok"
    /\ Len(instructions) = 3
    /\ idx = 1
    /\ instructions[1].type = "Push"
    /\ instructions[2].type = "Ret"
    /\ instructions[3].type = "Push"
    /\ call_stack = <<>>
    /\ Len(vstack) = 1

\* C22: a Div executed with 0 on top of the value stack makes execute return
\* a DivisionByZero error value instead of aborting the process.
C22_DivisionByZero ==
    [][(Fetch("Div") /\ Len(vstack) >= 2 /\ Last(vstack) = 0) =>
          /\ pc' = "done"
          /\ exec_result'.kind = "DivisionByZero"]_vars

\* C23: every call of execute starts from an empty value stack and an empty
\* call stack, whatever an earlier execute on the same machine has left.
C23_FreshStacks ==
    [][(pc = "parsed" /\ pc' = "exec") =>
          /\ vstack' = <<>>
          /\ call_stack' = <<>>]_vars

\* The values below the k topmost ones.
Below(s, k) == SubSeq(s, 1, Len(s) - k)

\* The step ends the execution of the given program.
Ends(program) == instructions = program /\ pc = "exec" /\ pc' = "done"

\* C24: on a value stack ... c b a (a on top) a Rot leaves ... b a c: the
\* third value from the top becomes the top, the depth and the values below
\* the three stay, on stacks of three values and on deeper ones;
\* Push(1); Push(2); Push(3); Rot and three Prints output [1, 3, 2].
C24_RotRotates ==
    [][/\ (Fetch("Rot") /\ Len(vstack) >= 3) =>
            LET n == Len(vstack) IN
            /\ vstack' = Below(vstack, 3) \o <<vstack[n - 1], vstack[n], vstack[n - 2]>>
            /\ Len(vstack') = n
            /\ \A k \in 1..(n - 3) : vstack'[k] = vstack[k]
            /\ idx' = idx + 1
            /\ pc' = "exec"
       /\ Ends(rot_operation) =>
            exec_result'.kind = "Ok" /\ result' = <<1, 3, 2>>]_vars

\* A Rot has acted on the four values -7 0 2 I32Max: the -7 below the
\* three rotated values is where it was.
C24_Witness ==
    /\ pc = "exec"
    /\ Len(instructions) = 5
    /\ \A k \in 1..4 : instructions[k].type = "Push"
    /\ instructions[5].type = "Rot"
    /\ idx = 5
    /\ vstack = <<-7, 2, I32Max, 0>>

\* C25: on a value stack ... b a (a on top) a Nip leaves ... a: the second
\* value from the top goes, the top and the values below stay;
\* Push(0); Push(1); Push(2); Nip; Print; Print outputs [2, 0].
C25_NipDropsSecond ==
    [][/\ (Fetch("Nip") /\ Len(vstack) >= 2) =>
            /\ vstack' = Below(vstack, 2) \o <<Last(vstack)>>
            /\ idx' = idx + 1
            /\ pc' = "exec"
       /\ Ends(nip_operation) =>
            exec_result'.kind = "Ok" /\ result' = <<2, 0>>]_vars

C25_Witness ==
    /\ pc = "done"
    /\ instructions = nip_operation
    /\ exec_result.kind = "Ok"
    /\ result = <<2, 0>>
    /\ vstack = <<>>

\* The instructions before index k are all pushes.
PushesBefore(k) == \A m \in 1..k : instructions[m].type = "Push"

\* C26: on a value stack ... b a (a on top) a Swap leaves ... a b, the depth
\* and the values below stay; a second Swap right after the first gives the
\* stack back as the pushes before them built it.
C26_SwapExchanges ==
    [][/\ (Fetch("Swap") /\ Len(vstack) >= 2) =>
            LET n == Len(vstack) IN
            /\ vstack' = Below(vstack, 2) \o <<vstack[n], vstack[n - 1]>>
            /\ idx' = idx + 1
            /\ pc' = "exec"
       /\ (/\ Fetch("Swap")
           /\ idx >= 3
           /\ instructions[idx].type = "Swap"
           /\ PushesBefore(idx - 1)) =>
            vstack' = [m \in 1..(idx - 1) |-> instructions[m].arg]
       /\ Ends(swap_operation) =>
            exec_result'.kind = "Ok" /\ result' = <<1, 2>>]_vars

C26_Witness ==
    /\ pc = "exec"
    /\ Len(instructions) = 5
    /\ PushesBefore(3)
    /\ instructions[4].type = "Swap"
    /\ instructions[5].type = "Swap"
    /\ idx = 5
    /\ vstack = <<-7, 0, 2>>

\* C27: on a value stack ... b a (a on top) an Over leaves ... b a b: a copy
\* of the second value from the top is the new top and the values that were
\* there keep their places; Push(1); Push(2); Over and three Prints output
\* [1, 2, 1].
C27_OverCopiesSecond ==
    [][/\ (Fetch("Over") /\ Len(vstack) >= 2) =>
            /\ vstack' = Append(vstack, vstack[Len(vstack) - 1])
            /\ idx' = idx + 1
            /\ pc' = "exec"
       /\ Ends(over_operation) =>
            exec_result'.kind = "Ok" /\ result' = <<1, 2, 1>>]_vars

C27_Witness ==
    /\ pc = "done"
    /\ instructions = over_operation
    /\ exec_result.kind = "Ok"
    /\ result = <<1, 2, 1>>
    /\ vstack = <<>>

\* The program has no instruction of a control kind.
ControlFree ==
    \A k \in 1..Len(instructions) :
        instructions[k].type \in CheckedTypes \cup {"Push", "Pop"}

\* What executing an instruction of the kind adds to the depth of the value
\* stack.
Effect(type) ==
    CASE type \in {"Push", "Dup", "Over"} -> 1
      [] type \in {"Swap", "Rot"} -> 0
      [] OTHER -> -1

RECURSIVE DepthAfter(_)
DepthAfter(k) ==
    IF k = 0 THEN 0 ELSE DepthAfter(k - 1) + Effect(instructions[k].type)

\* C28: check_stack_safety returns an error for every control-flow-free
\* program whose running depth is negative after some prefix, a Pop on depth
\* 0 followed by pushes included.
C28_RejectsNegativeDepth ==
    (/\ check_result.kind # "None"
     /\ ControlFree
     /\ \E k \in 1..Len(instructions) : DepthAfter(k) < 0)
        => check_result.kind = "StaticCheck"

\* C29: when check_stack_safety returns Ok for a program of the plain kinds,
\* executing that program from an empty value stack does not return
\* StackEmpty.
C29_CheckedNeverUnderflows ==
    (check_result.kind = "Ok" /\ ControlFree) => exec_result.kind # "StackEmpty"

\* What a caller of parse gets: the error, or the instructions and the
\* function table of the Program.
Outcome(res, ins, funs) ==
    IF res.kind = "Ok" THEN <<res, ins, funs>> ELSE <<res>>

\* C30: parse is deterministic: the outcome of every run of the parser is
\* the one value that the token sequence determines, error or instructions
\* (kinds, jump payloads, pos, line) with the function table.
C30_ParseDeterministic ==
    pc = "parsed" =>
        Outcome(parse_result, instructions, functions)
          = Outcome(parse(tokens).result, parse(tokens).instructions,
                    parse(tokens).functions)

C30_Witness ==
    /\ pc = "parsed"
    /\ parse_result.kind = "Ok"
    /\ DOMAIN functions = Names
    /\ functions["main"] # functions["f"]
    /\ \E k \in 1..Len(instructions) : instructions[k].type = "Call"
    /\ \E k \in 1..Len(instructions) : instructions[k].type = "EndWhile"

\* The tokens that give an instruction, in order: all but each 'fun' and
\* the identifier it consumes.
RECURSIVE Emitters(_, _)
Emitters(toks, k) ==
    IF k > Len(toks) THEN <<>>
    ELSE IF toks[k].type = "Fun" THEN Emitters(toks, k + 2)
    ELSE <<toks[k]>> \o Emitters(toks, k + 1)

\* The kinds of instruction that correspond to a token.
KindsOf(tok) ==
    CASE tok.type = "Num" -> {"Push"}
      [] tok.type = "End" -> {"EndWhile", "EndIf"}
      [] tok.type = "Identifier" -> {"Call"}
      [] OTHER -> {tok.type}

\* C31: an accepted token sequence gives, in token order, one instruction
\* for each token other than 'fun' and the identifier it consumes, with the
\* pos and line of the token and the kind that corresponds to it, so that
\* there are len(tokens) - 2 * (number of declarations) instructions.
C31_OneInstructionPerToken ==
    (pc = "parsed" /\ parse_result.kind = "Ok") =>
        LET e == Emitters(tokens, 1) IN
        /\ Len(instructions) = Len(e)
        /\ Len(instructions) = Len(tokens) - 2 * FunCount
        /\ \A k \in 1..Len(e) :
              /\ instructions[k].pos = e[k].pos
              /\ instructions[k].line = e[k].line
              /\ instructions[k].type \in KindsOf(e[k])
              /\ e[k].type = "Num" => instructions[k].arg = e[k].n

C31_Witness ==
    /\ pc = "parsed"
    /\ parse_result.kind = "Ok"
    /\ FunCount = 2
    /\ tokens[1].type # "Fun"
    /\ Len(instructions) >= 3
    /\ \E k \in 1..Len(instructions) : instructions[k].type = "Call"

\* Openers count +1 and closers -1 over the instructions at indices a..b.
RECURSIVE Net(_, _)
Net(a, b) ==
    IF a > b THEN 0
    ELSE Net(a, b - 1)
         + (CASE At(instructions, b).type \in {"While", "If"} -> 1
              [] At(instructions, b).type \in {"EndWhile", "EndIf"} -> -1
              [] OTHER -> 0)

\* The index of the instruction that opened the block closed at index k.
OpenerOf(k) ==
    CHOOSE j \in 0..(k - 1) :
        /\ At(instructions, j).type \in {"While", "If"}
        /\ Net(j + 1, k - 1) = 0
        /\ \A m \in (j + 1)..(k - 1) :
              ~(At(instructions, m).type \in {"While", "If"} /\ Net(m + 1, k - 1) = 0)

\* C32: in a program parse returns, each EndWhile(t) has t below its own
\* index and instructions[t] is the While that opened the loop it closes,
\* also when declarations precede the loop.
C32_EndWhileBackEdge ==
    (pc = "parsed" /\ parse_result.kind = "Ok") =>
        \A k \in 0..(Len(instructions) - 1) :
            At(instructions, k).type = "EndWhile" =>
                /\ At(instructions, k).arg < k
                /\ At(instructions, At(instructions, k).arg).type = "While"
                /\ At(instructions, k).arg = OpenerOf(k)

C32_Witness ==
    /\ pc = "parsed"
    /\ parse_result.kind = "Ok"
    /\ FunCount >= 1
    /\ \E k \in 2..(Len(instructions) - 1) :
          /\ At(instructions, k).type = "EndWhile"
          /\ At(instructions, k).arg > 0
          /\ At(instructions, k).arg < k - 1

ControlTypes == {"While", "EndWhile", "If", "Else", "EndIf", "Call", "Ret"}

\* C33: executing While, EndWhile, If, Else, EndIf, Call or Ret leaves the
\* value stack and the output as they are, and only Call and Ret change the
\* call stack.
C33_ControlKeepsValues ==
    [][(Running /\ instruction.type \in ControlTypes) =>
          /\ vstack' = vstack
          /\ result' = result
          /\ instruction.type \notin {"Call", "Ret"} => call_stack' = call_stack]_vars

C33_Witness ==
    /\ pc = "exec"
    /\ vstack # <<>>
    /\ call_stack # <<>>
    /\ At(instructions, Last(call_stack)).type = "Call"
    /\ idx = At(instructions, Last(call_stack)).arg

\* The program Push(v); While(t); EndWhile(1) with v not 0, entered at 0.
IsSpin ==
    /\ parse_result.kind = "Ok"
    /\ functions = to_program
    /\ Len(instructions) = 3
    /\ instructions[1].type = "Push"
    /\ instructions[1].arg # 0
    /\ instructions[2].type = "While"
    /\ instructions[3].type = "EndWhile"
    /\ instructions[3].arg = 1

\* C34: a loop whose tested value is never 0 does not terminate: executing
\* Push(1); While(t); EndWhile(1) never returns, a next step is always
\* there, and idx stays within the loop once it has entered it.
C34_LoopNeverReturns ==
    /\ [](IsSpin => /\ pc # "done"
                    /\ exec_result = NoResult
                    /\ ENABLED MachineNext)
    /\ [][(IsSpin /\ pc = "exec" /\ idx >= 1) => idx' \in {1, 2}]_vars

C34_Witness ==
    /\ IsSpin
    /\ pc = "exec"
    /\ idx = 2
    /\ vstack = <<1>>

\* The program has no While, EndWhile or Call.
LoopFree ==
    \A k \in 1..Len(instructions) :
        instructions[k].type \notin {"While", "EndWhile", "Call"}

\* C35: in a parsed program with no While, EndWhile or Call, idx grows at
\* every executed step that does not return, and a step that returns or
\* goes on is always there: execute terminates with Ok or with an error.
C35_LoopFreeTerminates ==
    /\ []((LoopFree /\ pc = "exec") => ENABLED ExecNext)
    /\ [][(LoopFree /\ pc = "exec") => (pc' = "done" \/ idx' > idx)]_vars

C35_Witness ==
    /\ pc = "done"
    /\ exec_result.kind = "Ok"
    /\ LoopFree
    /\ result # <<>>
    /\ \E k \in 1..Len(instructions) : instructions[k].type = "Else"

\* C36: in a program parse returns, the entry e of every Call(e) is at most
\* the index of the Call itself, hence an index of an instruction.
C36_CallEntryNotAfterCall ==
    (pc = "parsed" /\ parse_result.kind = "Ok") =>
        \A k \in 0..(Len(instructions) - 1) :
            At(instructions, k).type = "Call" =>
                /\ At(instructions, k).arg <= k
                /\ At(instructions, k).arg < Len(instructions)

C36_Witness ==
    /\ pc = "parsed"
    /\ parse_result.kind = "Ok"
    /\ \E k \in 1..(Len(instructions) - 1) :
          /\ At(instructions, k).type = "Call"
          /\ At(instructions, k).arg = k
    /\ \E k \in 1..(Len(instructions) - 1) :
          /\ At(instructions, k).type = "Call"
          /\ At(instructions, k).arg < k

\* C37: when execute returns StackEmpty the value stack is empty: what the
\* failing instruction popped before the failing pop is not put back.
C37_EmptyAfterUnderflow ==
    exec_result.kind = "StackEmpty" => vstack = <<>>

C37_Witness ==
    /\ exec_result.kind = "StackEmpty"
    /\ idx = 2
    /\ At(instructions, 0).type = "Push"
    /\ At(instructions, 1).type = "Push"
    /\ At(instructions, 2).type = "Rot"
    /\ vstack = <<>>

\* C38: every entry of the call stack is the index of a Call instruction of
\* the program; a Call appends its own index, a Ret on a non-empty call
\* stack removes the last entry, and no other step changes the call stack.
C38_CallStackDiscipline ==
    /\ [](\A k \in 1..Len(call_stack) :
            /\ call_stack[k] < Len(instructions)
            /\ At(instructions, call_stack[k]).type = "Call")
    /\ [][pc = "exec" =>
            IF Running /\ instruction.type = "Call"
            THEN call_stack' = Append(call_stack, idx)
            ELSE IF Running /\ instruction.type = "Ret" /\ call_stack # <<>>
            THEN call_stack' = Front(call_stack)
            ELSE call_stack' = call_stack]_vars

C38_Witness ==
    /\ pc = "exec"
    /\ Len(call_stack) = 2
    /\ call_stack[1] # call_stack[2]
    /\ idx = At(instructions, call_stack[2]).arg

\* The positions in tokens of the tokens that give an instruction, in order.
RECURSIVE EmitterPositions(_)
EmitterPositions(k) ==
    IF k > Len(tokens) THEN <<>>
    ELSE IF tokens[k].type = "Fun" THEN EmitterPositions(k + 2)
    ELSE <<k>> \o EmitterPositions(k + 1)

\* The number of instructions given by the tokens before position p.
EmittedBefore(p) ==
    Cardinality({j \in 1..Len(EmitterPositions(1)) : EmitterPositions(1)[j] < p})

\* The positions before p of the 'fun' tokens that declare name.
Declarations(name, p) ==
    {k \in 1..(p - 1) : /\ k < Len(tokens)
                         /\ tokens[k].type = "Fun"
                         /\ tokens[k + 1].type = "Identifier"
                         /\ tokens[k + 1].name = name}

\* The entry of the last declaration of name before position p.
LastEntry(name, p) ==
    EmittedBefore(CHOOSE k \in Declarations(name, p) :
                      \A m \in Declarations(name, p) : m <= k)

\* C39: with a name declared more than once, the function table holds the
\* entry of the last declaration, every Call carries the entry of the last
\* declaration that precedes it, and execute starts at the last-declared
\* main.
C39_LastDeclarationWins ==
    /\ []((pc = "parsed" /\ parse_result.kind = "Ok") =>
            /\ \A name \in DOMAIN functions :
                  functions[name] = LastEntry(name, Len(tokens) + 1)
            /\ \A j \in 1..Len(instructions) :
                  instructions[j].type = "Call" =>
                      instructions[j].arg =
                          LastEntry(tokens[EmitterPositions(1)[j]].name,
                                    EmitterPositions(1)[j]))
    /\ [][(pc = "parsed" /\ pc' = "exec") =>
            idx' = LastEntry("main", Len(tokens) + 1)]_vars

C39_Witness ==
    /\ pc = "exec"
    /\ Cardinality(Declarations("main", Len(tokens) + 1)) = 2
    /\ Len(instructions) = 2
    /\ instructions[1].type = "Call"
    /\ instructions[1].arg = 0
    /\ instructions[2].type = "Call"
    /\ instructions[2].arg = 1
    /\ idx = 1
    /\ call_stack = <<>>

\* The values of the type i32.
Int32 == I32Min..I32Max

\* The exact result of the instruction on the operands b (below) and a
\* (top) is outside the i32 range.
Overflows(type, b, a) ==
    CASE type = "Add" -> AddOverflows(a, b)
      [] type = "Sub" -> SubOverflows(b, a)
      [] type = "Mul" -> MulOverflows(a, b)
      [] OTHER -> FALSE

\* The exact result of the instruction reduced modulo 2^32 into the i32
\* range.
Reduced(type, b, a) ==
    CASE type = "Add" -> wrapping_add(a, b)
      [] type = "Sub" -> wrapping_sub(b, a)
      [] OTHER -> wrapping_mul(a, b)

====
